---- MODULE Spec2Model ----
(***************************************************************************)
(* A model of InFilesCache (src/src/InFilesCache.ts): a cache of compiled  *)
(* artifacts kept in files, one folder per source file path and one file   *)
(* per content hash.                                                       *)
(*                                                                         *)
(* Strings that the code takes apart (paths, extensions, hashes) are       *)
(* sequences of one-character strings; file contents are atoms (strings).  *)
(* An optional value (a string or null/undefined) is a sequence of length  *)
(* at most one: << >> is null/undefined, <<v>> is the value v.             *)
(***************************************************************************)
EXTENDS Naturals, Sequences, FiniteSets

(***************************************************************************)
(* Bounds of the model.                                                    *)
(***************************************************************************)
\* operations of one run (get/set/clear calls and changes of source files):
\* of a run over all requests, and of a run over the requests of one file
MaxOps == 2
MaxOpsDeep == 4
\* operations of a run with an obstructed cache directory
MaxOpsFaults == 3
\* calls of a run of concurrent calls
MaxTasks == 3
\* calls of a run of concurrent calls under fair scheduling
MaxTasksLive == 2
\* operations of a run over file paths of many shapes
MaxOpsPaths == 2
\* directory segments of the file paths the naming functions are applied to
MaxDirs == 3
\* the longest file extension named, in characters
MaxExt == 3

(***************************************************************************)
(* String primitives of JavaScript, on sequences of characters.            *)
(***************************************************************************)
\* the characters matched by \w in a regular expression
WordChars ==
  { "a", "b", "c", "d", "e", "f", "g", "h", "i", "j", "k", "l", "m",
    "n", "o", "p", "q", "r", "s", "t", "u", "v", "w", "x", "y", "z",
    "A", "B", "C", "D", "E", "F", "G", "H", "I", "J", "K", "L", "M",
    "N", "O", "P", "Q", "R", "S", "T", "U", "V", "W", "X", "Y", "Z",
    "0", "1", "2", "3", "4", "5", "6", "7", "8", "9", "_" }

\* does sub occur in s at position i
OccursAt(s, sub, i) ==
  /\ i >= 1
  /\ i + Len(sub) - 1 <= Len(s)
  /\ \A k \in 1..Len(sub) : s[i + k - 1] = sub[k]

\* the first position from i on at which sub occurs in s; 0 when there is none
RECURSIVE IndexFrom(_, _, _)
IndexFrom(s, sub, i) ==
  IF i + Len(sub) - 1 > Len(s) THEN 0
  ELSE IF OccursAt(s, sub, i) THEN i
  ELSE IndexFrom(s, sub, i + 1)

\* String.prototype.indexOf, 1-based; 0 when sub does not occur
IndexOf(s, sub) == IndexFrom(s, sub, 1)

\* s without the n characters from position i on; s itself when i = 0
CutAt(s, i, n) ==
  IF i = 0 THEN s ELSE SubSeq(s, 1, i - 1) \o SubSeq(s, i + n, Len(s))

\* s.replace(sub, ""): the first occurrence of sub, wherever it is, is removed
RemoveFirst(s, sub) ==
  IF Len(sub) = 0 THEN s ELSE CutAt(s, IndexOf(s, sub), Len(sub))

\* the first position from i on of a "." that a word character follows; 0
\* when there is none
RECURSIVE ExtensionFrom(_, _)
ExtensionFrom(s, i) ==
  IF i + 1 > Len(s) THEN 0
  ELSE IF s[i] = "." /\ s[i + 1] \in WordChars THEN i
  ELSE ExtensionFrom(s, i + 1)

\* the length of the run of word characters of s that starts at position i
RECURSIVE WordRun(_, _)
WordRun(s, i) ==
  IF i > Len(s) \/ s[i] \notin WordChars THEN 0 ELSE 1 + WordRun(s, i + 1)

\* s without the "." at position i and the word characters after it
CutExtension(s, i) ==
  IF i = 0 THEN s ELSE CutAt(s, i, 1 + WordRun(s, i + 1))

\* s.replace(/\.\w+/, ""): the first "." that is followed by a word character
\* is removed together with the longest run of word characters after it
RemoveFirstExtension(s) == CutExtension(s, ExtensionFrom(s, 1))

\* s.split("/"): the segments between the separators (at least one segment)
RECURSIVE Split(_)
RECURSIVE SplitAt(_, _)
SplitAt(s, i) ==
  IF i = 0 THEN <<s>>
  ELSE <<SubSeq(s, 1, i - 1)>> \o Split(SubSeq(s, i + 1, Len(s)))

Split(s) == SplitAt(s, IndexOf(s, <<"/">>))

\* tokens.join(sep)
RECURSIVE Join(_, _)
Join(tokens, sep) ==
  IF Len(tokens) = 0 THEN << >>
  ELSE IF Len(tokens) = 1 THEN tokens[1]
  ELSE tokens[1] \o sep \o Join(Tail(tokens), sep)

(***************************************************************************)
(* Node's path module (POSIX).                                             *)
(***************************************************************************)
IsAbsolute(p) == Len(p) > 0 /\ p[1] = "/"

\* the normalized segments acc, extended by the segment s: "" and "." are
\* dropped, ".." takes the segment before it away
NormalizeStep(acc, s, abs) ==
  IF s = << >> \/ s = <<".">> THEN acc
  ELSE IF s # <<".", ".">> THEN Append(acc, s)
  ELSE IF Len(acc) > 0 /\ acc[Len(acc)] # <<".", ".">>
    THEN SubSeq(acc, 1, Len(acc) - 1)
  ELSE IF abs THEN acc
  ELSE Append(acc, s)

RECURSIVE NormalizeSegments(_, _, _)
NormalizeSegments(segs, acc, abs) ==
  IF Len(segs) = 0 THEN acc
  ELSE NormalizeSegments(Tail(segs), NormalizeStep(acc, Head(segs), abs), abs)

\* the path of the normalized segments joined to body
NormalizedPath(abs, body) ==
  IF abs THEN <<"/">> \o body
  ELSE IF body = << >> THEN <<".">>
  ELSE body

\* path.normalize, without a trailing separator
Normalize(p) ==
  NormalizedPath(IsAbsolute(p),
                 Join(NormalizeSegments(Split(p), << >>, IsAbsolute(p)), <<"/">>))

\* path.join(parts): the non-empty parts joined by "/" and normalized
PathJoin(parts) ==
  Normalize(Join(SelectSeq(parts, LAMBDA x : x # << >>), <<"/">>))

\* the position of the last "/" of p at or before position i; 0 when none
RECURSIVE LastSlash(_, _)
LastSlash(p, i) ==
  IF i = 0 THEN 0
  ELSE IF p[i] = "/" THEN i
  ELSE LastSlash(p, i - 1)

\* p up to its last "/", which is at position i
DirnameAt(p, i) ==
  IF i = 0 THEN <<".">>
  ELSE IF i = 1 THEN <<"/">>
  ELSE SubSeq(p, 1, i - 1)

\* path.dirname of a normalized path
Dirname(p) == DirnameAt(p, LastSlash(p, Len(p)))

\* is path p inside directory dir (both normalized and absolute); every
\* other path is inside the root directory "/"
IsUnder(p, dir) ==
  IF dir = <<"/">>
    THEN Len(p) > 1 /\ p[1] = "/"
    ELSE /\ Len(p) > Len(dir) + 1
         /\ SubSeq(p, 1, Len(dir)) = dir
         /\ p[Len(dir) + 1] = "/"

(***************************************************************************)
(* The universe of one run.                                                *)
(***************************************************************************)
\* the directory findPathToFile("package.json") returns: "/r"
Root == <<"/", "r">>

\* the working directory of the process, against which the file system
\* resolves relative paths: the project root, as in the test suite
Cwd == Root

\* the cache instances that share the disk, by their cacheFolderPath:
\* "c" (relative to the project root) and "/r/c" (absolute)
Insts == {1, 2}
CacheFolderPaths ==
  [i \in Insts |-> IF i = 1 THEN <<"c">> ELSE <<"/", "r", "/", "c">>]

\* contents of source files, and the artifacts compiled from them
SourceContents == {"", "x", "y"}
Artifacts == {"P", "Q"}

\* the source file of the project that is edited, by absolute path: /r/a.t
SourceFiles == { <<"/", "r", "/", "a", ".", "t">> }

\* the filePath values callers pass: files in the project root and in its
\* folder d, by their path relative to the project root and by absolute path
FilePaths ==
  { <<"a", ".", "t">>,
    <<"d", "/", "a", ".", "t">>,
    <<"/", "r", "/", "a", ".", "t">>,
    <<"/", "r", "/", "d", "/", "a", ".", "t">> }

\* fileContent: undefined, or a string (the empty string included)
FileContents == {<< >>} \cup { <<c>> : c \in SourceContents }

FileExtensions == { <<".", "j">> }

\* CacheParams (src/src/InFilesCache.ts:27)
CacheParams ==
  [filePath : FilePaths, fileContent : FileContents, fileExtension : FileExtensions]

\* the real request for the source file a.t, and the virtual request for its
\* content c
RealRequest ==
  [filePath |-> <<"a", ".", "t">>, fileContent |-> << >>,
   fileExtension |-> <<".", "j">>]

VirtualRequest(c) == [RealRequest EXCEPT !.fileContent = <<c>>]

\* the public operations
Operations == {"get", "set", "clear"}

\* truthiness as it would be if the empty string were truthy
TruthyDefined(opt) == opt # << >>

\* JavaScript truthiness of an optional string: undefined, null and "" are falsy
Truthy(opt) == opt # << >> /\ opt[1] # ""

(***************************************************************************)
(* The file system: disk maps the absolute path of every regular file to   *)
(* its content; a directory exists when a file lies under it.              *)
(***************************************************************************)
\* the absolute path the file system resolves p to
Resolve(p) ==
  IF IsAbsolute(p) THEN Normalize(p) ELSE Normalize(Cwd \o <<"/">> \o p)

IsDirectory(d, q) == \E f \in DOMAIN d : IsUnder(f, q)

\* some proper ancestor of q is a regular file
UnderFile(d, q) == \E f \in DOMAIN d : IsUnder(q, f)

\* reading the file at the absolute path q
ReadAt(d, q) ==
  IF q \in DOMAIN d THEN [kind |-> "return", val |-> <<d[q]>>]
  ELSE IF IsDirectory(d, q) THEN [kind |-> "throw", err |-> "EISDIR"]
  ELSE IF UnderFile(d, q) THEN [kind |-> "throw", err |-> "ENOTDIR"]
  ELSE [kind |-> "throw", err |-> "ENOENT"]

\* fs.readFileSync(p, "utf8"): the content, or the error it throws
readFileSync(d, p) == ReadAt(d, Resolve(p))

\* can the file q be written: it is no directory and no ancestor is a file
Writable(d, q) == ~IsDirectory(d, q) /\ ~UnderFile(d, q)

\* outputFileSync as it would be if it appended to an existing file: the
\* file then holds more than the content written
outputFileSyncAppend(d, q, content) ==
  [f \in DOMAIN d \cup {q} |->
     IF f # q THEN d[f] ELSE IF q \in DOMAIN d THEN "appended" ELSE content]

\* outputFileSync as it would be if it emptied the folder it writes into
outputFileSyncAlone(d, q, content) ==
  [f \in { g \in DOMAIN d : Dirname(g) # Dirname(q) } \cup {q} |->
     IF f = q THEN content ELSE d[f]]

\* fs-extra outputFileSync(q, content): the disk afterwards (parents are
\* created as needed, an existing file is overwritten)
outputFileSync(d, q, content) ==
  [f \in DOMAIN d \cup {q} |-> IF f = q THEN content ELSE d[f]]

\* the disk without the file q and without everything under q
RemoveTree(d, q) ==
  [f \in { g \in DOMAIN d : g # q /\ ~IsUnder(g, q) } |-> d[f]]

\* fs-extra removeSync(p): p and everything under it is gone; no-op if absent
removeSync(d, p) == RemoveTree(d, Resolve(p))

(***************************************************************************)
(* InFilesCache, private helpers.                                          *)
(***************************************************************************)
\* the catch of readFile as it would be if it returned "" for a missing file
CatchNoFileEmpty(r) ==
  IF r.kind = "throw" /\ r.err = "ENOENT"
    THEN [kind |-> "return", val |-> <<"">>]
    ELSE r

\* the catch of readFile as it would be if it returned null for every error
CatchAnyError(r) ==
  IF r.kind = "throw" THEN [kind |-> "return", val |-> << >>] ELSE r

\* the catch of readFile: ENOENT becomes null, any other error is thrown on
CatchNoFile(r) ==
  IF r.kind = "throw" /\ r.err = "ENOENT"
    THEN [kind |-> "return", val |-> << >>]
    ELSE r

\* readFile: a missing file is null, any other failure is thrown on
readFile(d, filePath) == CatchNoFile(readFileSync(d, filePath))

\* absolutePathToRelative as it would be if it left the path as it is
absolutePathKept(pathToModify, appRootFolderPath) == pathToModify

absolutePathToRelative(pathToModify, appRootFolderPath) ==
  RemoveFirst(pathToModify, appRootFolderPath)

\* resultFileContent as it would be if a missing file were read as "x"
LoadContentDefault(d, fileContent, resultFilePath) ==
  IF Truthy(fileContent)
    THEN [kind |-> "return", val |-> fileContent]
    ELSE IF readFile(d, resultFilePath) = [kind |-> "return", val |-> << >>]
      THEN [kind |-> "return", val |-> <<"x">>]
      ELSE readFile(d, resultFilePath)

\* resultFileContent: the content passed, or else the content read
LoadContent(d, fileContent, resultFilePath) ==
  IF Truthy(fileContent)
    THEN [kind |-> "return", val |-> fileContent]
    ELSE readFile(d, resultFilePath)

\* the params returned as they would be without the check of the content
CheckContentNoThrow(read, resultFilePath, fileExtension) ==
  IF read.kind = "throw" THEN read
  ELSE [kind |-> "return",
        fileExtension |-> fileExtension,
        filePath |-> resultFilePath,
        fileContent |-> IF Truthy(read.val) THEN read.val[1] ELSE ""]

\* the check of resultFileContent and the params returned
CheckContent(read, resultFilePath, fileExtension) ==
  IF read.kind = "throw" THEN read
  ELSE IF ~Truthy(read.val)
    THEN [kind |-> "throw", err |-> "There is no such a file",
          path |-> resultFilePath]
  ELSE [kind |-> "return",
        fileExtension |-> fileExtension,
        filePath |-> resultFilePath,
        fileContent |-> read.val[1]]

\* prepareCacheParams with the path already made relative
PrepareRelative(d, originalCacheParams, resultFilePath) ==
  CheckContent(LoadContent(d, originalCacheParams.fileContent, resultFilePath),
               resultFilePath, originalCacheParams.fileExtension)

\* the CacheParams with the path made relative and the content loaded, or the
\* error thrown
prepareCacheParams(d, originalCacheParams, appRootFolderPath) ==
  PrepareRelative(d, originalCacheParams,
    absolutePathToRelative(originalCacheParams.filePath, appRootFolderPath))

\* the folder name of the tokens of a path: the last token loses its
\* extension and the tokens are joined by "-"
FolderNameOf(tokens, fileName) ==
  IF Len(tokens) > 0
    THEN Join(tokens, <<"-">>) \o <<"-">> \o RemoveFirstExtension(fileName)
    ELSE RemoveFirstExtension(fileName)

\* tokens.pop(): the last token, and the tokens left
PopTokens(all) == FolderNameOf(SubSeq(all, 1, Len(all) - 1), all[Len(all)])

\* the first "/" of the path is removed (wherever it is), the rest is split
\* at "/", the last token loses its extension, and the tokens are joined by "-"
generateCacheFolderName(filePath) ==
  PopTokens(Split(RemoveFirst(filePath, <<"/">>)))

\* crypto.createHash("md5").update(content).digest("hex"): the 32 hexadecimal
\* digits of the MD5 digest of the content
md5Hex(content) ==
  CASE content = "x" ->
         <<"9", "d", "d", "4", "e", "4", "6", "1", "2", "6", "8", "c", "8", "0", "3", "4",
           "f", "5", "c", "8", "5", "6", "4", "e", "1", "5", "5", "c", "6", "7", "a", "6">>
    [] content = "y" ->
         <<"4", "1", "5", "2", "9", "0", "7", "6", "9", "5", "9", "4", "4", "6", "0", "e",
           "2", "e", "4", "8", "5", "9", "2", "2", "9", "0", "4", "f", "3", "4", "5", "d">>
    [] content = ""  ->
         <<"d", "4", "1", "d", "8", "c", "d", "9", "8", "f", "0", "0", "b", "2", "0", "4",
           "e", "9", "8", "0", "0", "9", "9", "8", "e", "c", "f", "8", "4", "2", "7", "e">>

\* String.prototype.slice(from, to) for 0 <= from <= to: the characters at
\* the (0-based) positions from .. to - 1 that the string has
Slice(s, from, to) ==
  SubSeq(s, from + 1, IF to < Len(s) THEN to ELSE Len(s))

\* generateHash as it would be if it kept the whole digest
generateHashWhole(content) == md5Hex(content)

\* the first 10 characters of the MD5 digest in hex
generateHash(content) == Slice(md5Hex(content), 0, 10)

\* generateCacheFileName as it would be if the name did not depend on the
\* content
generateCacheFileNameFixed(fileContent, fileExtension) ==
  generateHash("") \o fileExtension

generateCacheFileName(fileContent, fileExtension) ==
  generateHash(fileContent) \o fileExtension

\* the path joined of the four parts, for the prepared params p
JoinCachePath(p, cacheFolderPath, appRootFolderPath) ==
  IF p.kind = "throw" THEN p
  ELSE [kind |-> "return",
        path |-> PathJoin(<<appRootFolderPath,
                            absolutePathToRelative(cacheFolderPath, appRootFolderPath),
                            generateCacheFolderName(p.filePath),
                            generateCacheFileName(p.fileContent, p.fileExtension)>>)]

\* the absolute path of the cache file of a request, or the error thrown
generatePathToCacheFile(d, cacheFolderPath, originalCacheParams, appRootFolderPath) ==
  JoinCachePath(prepareCacheParams(d, originalCacheParams, appRootFolderPath),
                cacheFolderPath, appRootFolderPath)

\* the folder of a cache file as it would be without path.dirname: the file
FolderOfFile(r) == r

\* path.dirname of the path r of a cache file
FolderOf(r) ==
  IF r.kind = "throw" THEN r ELSE [kind |-> "return", path |-> Dirname(r.path)]

\* the absolute path of the folder of a request, or the error thrown
generatePathToFileCacheFolder(d, cacheFolderPath, cacheParams, appRootFolderPath) ==
  FolderOf(generatePathToCacheFile(d, cacheFolderPath, cacheParams, appRootFolderPath))

(***************************************************************************)
(* State.                                                                  *)
(***************************************************************************)
VARIABLES
  disk,         \* the file system: absolute path of a regular file -> content
  appRootPath,  \* per instance: the memoized project root, << >> while null
  calls,        \* per instance: how often findPathToFile was invoked
  last,         \* the operation that completed last, with its result
  written,      \* the files set has created so far (history)
  setParams,    \* the CacheParams set has been called with so far (history)
  left,         \* operations the run may still make
  tasks         \* the calls that run concurrently, in the order of their start

vars == <<disk, appRootPath, calls, last, written, setParams, left, tasks>>

\* the disks with nothing but source files on them
SourceDisks ==
  UNION { [S -> SourceContents] : S \in SUBSET SourceFiles }

\* a fresh process: nothing is cached, no project root is memoized
Fresh ==
  /\ disk \in SourceDisks
  /\ appRootPath = [i \in Insts |-> << >>]
  /\ calls = [i \in Insts |-> 0]
  /\ last = [op |-> "none"]
  /\ written = {}
  /\ setParams = {}
  /\ tasks = << >>

Init == Fresh /\ left = MaxOps

\* has instance i memoized a project root (if (this.appRootPath))
Memoized(i) == appRootPath[i] # << >> /\ appRootPath[i][1] # << >>

\* the value getAppRootFolderPath resolves to for instance i
appRootFolderPath(i) == IF Memoized(i) THEN appRootPath[i][1] ELSE Root

\* getAppRootFolderPath: the locator is asked unless a root is memoized
getAppRootFolderPath(i) ==
  /\ appRootPath' = [appRootPath EXCEPT ![i] = <<appRootFolderPath(i)>>]
  /\ calls' = IF Memoized(i) THEN calls ELSE [calls EXCEPT ![i] = @ + 1]

\* what the call of an operation by instance i with cacheParams sees of the
\* operation l that completed just before it
Before(l, i, cacheParams) ==
  IF l.op \in {"get", "set", "clear"}
    THEN [op       |-> l.op,
          ok       |-> l.res.kind = "return",
          sameInst |-> l.inst = i,
          sameReq  |-> l.req = cacheParams,
          samePath |-> l.req.filePath = cacheParams.filePath,
          arg      |-> l.arg,
          count    |-> l.count,
          changed  |-> l.changed,
          found    |-> l.found]
    ELSE [op |-> l.op]

(***************************************************************************)
(* The public operations.  Each is awaited by its caller, so a handler     *)
(* runs from its call to its completion as one step.                       *)
(***************************************************************************)
\* get, once the path r of the cache file is known: the artifact, null, or
\* the error thrown
ReadCache(d, r) == IF r.kind = "throw" THEN r ELSE readFile(d, r.path)

\* the result of get on disk d
getResult(d, cacheFolderPath, cacheParams, root) ==
  ReadCache(d, generatePathToCacheFile(d, cacheFolderPath, cacheParams, root))

\* set, once the path r of the cache file is known: the result and the disk
WriteCache(d, r, contentToCache) ==
  IF r.kind = "throw" THEN [res |-> r, disk |-> d]
  ELSE IF ~Writable(d, r.path)
    THEN [res |-> [kind |-> "throw", err |-> "EEXIST"], disk |-> d]
  ELSE [res  |-> [kind |-> "return", val |-> << >>],
        disk |-> outputFileSync(d, r.path, contentToCache)]

\* set as it would be if it stored the content of the source where it can be
\* loaded
setResultSource(d, cacheFolderPath, cacheParams, contentToCache, root) ==
  WriteCache(d, generatePathToCacheFile(d, cacheFolderPath, cacheParams, root),
             IF prepareCacheParams(d, cacheParams, root).kind = "return"
               THEN prepareCacheParams(d, cacheParams, root).fileContent
               ELSE contentToCache)

\* the result of set on disk d and the disk it leaves
setResult(d, cacheFolderPath, cacheParams, contentToCache, root) ==
  WriteCache(d, generatePathToCacheFile(d, cacheFolderPath, cacheParams, root),
             contentToCache)

\* clear as it would be if the removal failed for a folder that does not exist
RemoveCacheStrict(d, r) ==
  IF r.kind = "throw" THEN [res |-> r, disk |-> d]
  ELSE IF removeSync(d, r.path) = d
    THEN [res |-> [kind |-> "throw", err |-> "ENOENT"], disk |-> d]
  ELSE [res  |-> [kind |-> "return", val |-> << >>],
        disk |-> removeSync(d, r.path)]

\* clear, once the path r of the folder is known: the result and the disk
RemoveCache(d, r) ==
  IF r.kind = "throw" THEN [res |-> r, disk |-> d]
  ELSE [res  |-> [kind |-> "return", val |-> << >>],
        disk |-> removeSync(d, r.path)]

\* the result of clear on disk d and the disk it leaves
clearResult(d, cacheFolderPath, cacheParams, root) ==
  RemoveCache(d, generatePathToFileCacheFolder(d, cacheFolderPath, cacheParams, root))

\* the files of disk d in the folder r
FolderFiles(d, r) ==
  IF r.kind = "throw" THEN {} ELSE { f \in DOMAIN d : IsUnder(f, r.path) }

\* the record of a call op(cacheParams, arg) of instance i that has completed
\* with result res and has changed the disk from d to e, after the call l:
\* count is the number of files it added (set) or removed (clear), found the
\* number of files in the folder of cacheParams when it was called
Completed(op, i, cacheParams, arg, res, d, e, l) ==
  [op      |-> op, inst |-> i, req |-> cacheParams, arg |-> arg,
   res     |-> res,
   count   |-> Cardinality((DOMAIN e \ DOMAIN d) \cup (DOMAIN d \ DOMAIN e)),
   changed |-> e # d,
   found   |-> Cardinality(FolderFiles(d,
                 generatePathToFileCacheFolder(d, CacheFolderPaths[i],
                                               cacheParams, Root))),
   prev    |-> Before(l, i, cacheParams)]

\* get as it would be if a miss created the cache file, empty
GetTouching(i, cacheParams) ==
  /\ left > 0
  /\ getAppRootFolderPath(i)
  /\ last' = Completed("get", i, cacheParams, "",
                       getResult(disk, CacheFolderPaths[i], cacheParams,
                                 appRootFolderPath(i)),
                       disk, disk, last)
  /\ disk' = IF getResult(disk, CacheFolderPaths[i], cacheParams,
                          appRootFolderPath(i))
                  = [kind |-> "return", val |-> << >>]
               THEN outputFileSync(disk,
                      generatePathToCacheFile(disk, CacheFolderPaths[i], cacheParams,
                                              appRootFolderPath(i)).path, "")
               ELSE disk
  /\ left' = left - 1
  /\ UNCHANGED <<written, setParams, tasks>>

Get(i, cacheParams) ==
  /\ left > 0
  /\ getAppRootFolderPath(i)
  /\ last' = Completed("get", i, cacheParams, "",
                       getResult(disk, CacheFolderPaths[i], cacheParams,
                                 appRootFolderPath(i)),
                       disk, disk, last)
  /\ left' = left - 1
  /\ UNCHANGED <<disk, written, setParams, tasks>>

SetDone(i, cacheParams, contentToCache, out) ==
  /\ disk' = out.disk
  /\ written' = written \cup (DOMAIN out.disk \ DOMAIN disk)
  /\ last' = Completed("set", i, cacheParams, contentToCache, out.res,
                       disk, out.disk, last)

Set(i, cacheParams, contentToCache) ==
  /\ left > 0
  /\ getAppRootFolderPath(i)
  /\ SetDone(i, cacheParams, contentToCache,
             setResult(disk, CacheFolderPaths[i], cacheParams, contentToCache,
                       appRootFolderPath(i)))
  /\ setParams' = setParams \cup {cacheParams}
  /\ left' = left - 1
  /\ UNCHANGED tasks

ClearDone(i, cacheParams, out) ==
  /\ disk' = out.disk
  /\ last' = Completed("clear", i, cacheParams, "", out.res,
                       disk, out.disk, last)

Clear(i, cacheParams) ==
  /\ left > 0
  /\ getAppRootFolderPath(i)
  /\ ClearDone(i, cacheParams,
               clearResult(disk, CacheFolderPaths[i], cacheParams,
                           appRootFolderPath(i)))
  /\ left' = left - 1
  /\ UNCHANGED <<written, setParams, tasks>>

(***************************************************************************)
(* The environment: source files of the project are edited and deleted     *)
(* between the calls.                                                      *)
(***************************************************************************)
WriteSource(f, content) ==
  /\ left > 0
  /\ disk' = outputFileSync(disk, f, content)
  /\ disk' # disk
  /\ last' = [op |-> "source"]
  /\ left' = left - 1
  /\ UNCHANGED <<appRootPath, calls, written, setParams, tasks>>

RemoveSource(f) ==
  /\ left > 0
  /\ f \in DOMAIN disk
  /\ disk' = removeSync(disk, f)
  /\ last' = [op |-> "source"]
  /\ left' = left - 1
  /\ UNCHANGED <<appRootPath, calls, written, setParams, tasks>>

Next ==
  \/ \E i \in Insts, cacheParams \in CacheParams : Get(i, cacheParams)
  \/ \E i \in Insts, cacheParams \in CacheParams, contentToCache \in Artifacts :
       Set(i, cacheParams, contentToCache)
  \/ \E i \in Insts, cacheParams \in CacheParams : Clear(i, cacheParams)
  \/ \E f \in SourceFiles, content \in SourceContents : WriteSource(f, content)
  \/ \E f \in SourceFiles : RemoveSource(f)

Spec == Init /\ [][Next]_vars

(***************************************************************************)
(* Longer runs of one instance over the requests of one file.              *)
(***************************************************************************)
DeepParams ==
  { cacheParams \in CacheParams :
      /\ cacheParams.filePath = <<"a", ".", "t">>
      /\ cacheParams.fileContent \in { << >>, <<"x">>, <<"y">> } }

InitDeep ==
  /\ Fresh
  /\ disk = [f \in SourceFiles |-> "x"]
  /\ left = MaxOpsDeep

NextDeep ==
  \/ \E cacheParams \in DeepParams : Get(1, cacheParams)
  \/ \E cacheParams \in DeepParams, contentToCache \in Artifacts :
       Set(1, cacheParams, contentToCache)
  \/ \E cacheParams \in DeepParams : Clear(1, cacheParams)
  \/ \E f \in SourceFiles, content \in SourceContents : WriteSource(f, content)
  \/ \E f \in SourceFiles : RemoveSource(f)

SpecDeep == InitDeep /\ [][NextDeep]_vars

(***************************************************************************)
(* Runs in which the cache directory is obstructed: a regular file lies     *)
(* where the cache needs a folder, or a folder where it needs a file.       *)
(***************************************************************************)
\* the paths at which the environment puts a file: the cache directory /r/c,
\* the folder /r/c/a of the file a.t, and a file inside a folder that has the
\* path of the cache file of the content "x"
Obstacles ==
  { <<"/", "r", "/", "c">>,
    <<"/", "r", "/", "c", "/", "a">>,
    PathJoin(<<Root, <<"c">>, <<"a">>,
               generateCacheFileName("x", <<".", "j">>), <<"k">>>>) }

\* the environment creates a file at an obstacle path where it can
Obstruct(f) ==
  /\ left > 0
  /\ f \notin DOMAIN disk
  /\ Writable(disk, f)
  /\ disk' = outputFileSync(disk, f, "o")
  /\ last' = [op |-> "source"]
  /\ left' = left - 1
  /\ UNCHANGED <<appRootPath, calls, written, setParams, tasks>>

InitFaults ==
  /\ Fresh
  /\ left = MaxOpsFaults

NextFaults ==
  \/ \E cacheParams \in DeepParams : Get(1, cacheParams)
  \/ \E cacheParams \in DeepParams, contentToCache \in Artifacts :
       Set(1, cacheParams, contentToCache)
  \/ \E f \in Obstacles : Obstruct(f)

SpecFaults == InitFaults /\ [][NextFaults]_vars

(***************************************************************************)
(* Concurrent calls.  get, set and clear are async functions: a call runs   *)
(* until it waits for the project root, resumes when getAppRootFolderPath   *)
(* has returned, and after generatePathToCacheFile has returned it does its *)
(* file system operation.  Between these steps the steps of other calls     *)
(* run.  The file system operations are synchronous: nothing else runs in   *)
(* the process of the call while one is under way.  Another process, which  *)
(* shares only the disk, runs on: outputFileSync first creates or truncates *)
(* the file and then writes the content, removeSync first removes the files *)
(* of the folder and then the folder.  Instance 1 and instance 2 live in    *)
(* two processes.                                                           *)
(***************************************************************************)
\* the process an instance lives in
ProcessOf(i) == i

\* is the process p inside a synchronous file system operation
Busy(p) ==
  \E t \in DOMAIN tasks :
    ProcessOf(tasks[t].inst) = p /\ tasks[t].pc \in {"writing", "removing"}

\* the request of the concurrent calls: the real request for the file a.t
AsyncParams == {RealRequest}

\* the second argument of a call of op: the artifact of a set
ArgsOf(op) == IF op = "set" THEN Artifacts ELSE {""}

\* the path and the result of a call that has not got them yet
Pending == [kind |-> "pending"]

\* a call of op by instance i as it starts: getAppRootFolderPath returns the
\* memoized root, or invokes findPathToFile and waits for it; after is the
\* set of the calls that have completed before this call started
NewTask(op, i, cacheParams, arg) ==
  [op       |-> op, inst |-> i, req |-> cacheParams, arg |-> arg,
   pc       |-> IF Memoized(i) THEN "rooted" ELSE "locating",
   located  |-> ~Memoized(i),
   rejected |-> FALSE,
   root     |-> IF Memoized(i) THEN appRootPath[i] ELSE << >>,
   path     |-> Pending,
   res      |-> Pending,
   after    |-> { t \in DOMAIN tasks : tasks[t].pc = "done" }]

Call(op, i, cacheParams, arg) ==
  /\ left > 0
  /\ ~Busy(ProcessOf(i))
  /\ tasks' = Append(tasks, NewTask(op, i, cacheParams, arg))
  /\ calls' = IF Memoized(i) THEN calls ELSE [calls EXCEPT ![i] = @ + 1]
  /\ setParams' = IF op = "set" THEN setParams \cup {cacheParams} ELSE setParams
  /\ left' = left - 1
  /\ UNCHANGED <<disk, appRootPath, last, written>>

\* findPathToFile resolves with the directory of package.json: the root is
\* memoized and returned
Located(t) ==
  /\ tasks[t].pc = "locating"
  /\ ~Busy(ProcessOf(tasks[t].inst))
  /\ appRootPath' = [appRootPath EXCEPT ![tasks[t].inst] = <<Root>>]
  /\ tasks' = [tasks EXCEPT ![t] = [tasks[t] EXCEPT !.pc = "rooted",
                                                     !.root = <<Root>>]]
  /\ UNCHANGED <<disk, calls, last, written, setParams, left>>

\* a call whose wait for the root failed, as it would be if it went on with
\* the working directory for the root
RejectedFallback(task) == [task EXCEPT !.pc = "rooted", !.root = <<Cwd>>]

\* a call whose wait for the root failed: nothing catches the rejection, the
\* call fails with it
Rejected(task) ==
  [task EXCEPT !.pc = "done",
               !.res = [kind |-> "throw", err |-> "findPathToFile"]]

\* findPathToFile rejects
NotLocated(t) ==
  /\ tasks[t].pc = "locating"
  /\ ~Busy(ProcessOf(tasks[t].inst))
  /\ tasks' = [tasks EXCEPT ![t] = Rejected([tasks[t] EXCEPT !.rejected = TRUE])]
  /\ UNCHANGED <<disk, appRootPath, calls, last, written, setParams, left>>

\* a call after generatePathToCacheFile: it has the path r, or has failed
Resolved(task, r) ==
  IF r.kind = "throw"
    THEN [task EXCEPT !.pc = "done", !.res = r]
    ELSE [task EXCEPT !.pc = "resolved", !.path = r]

\* the call resumes with the root: prepareCacheParams and path.join
Resume(t) ==
  /\ tasks[t].pc = "rooted"
  /\ ~Busy(ProcessOf(tasks[t].inst))
  /\ tasks' = [tasks EXCEPT ![t] =
                 Resolved(tasks[t],
                   generatePathToCacheFile(disk, CacheFolderPaths[tasks[t].inst],
                                           tasks[t].req, tasks[t].root[1]))]
  /\ UNCHANGED <<disk, appRootPath, calls, last, written, setParams, left>>

\* a call as it would be if it began again with the root once it has its
\* result
DoneRetry(task, res) == [task EXCEPT !.pc = "rooted", !.res = res]

\* a call that has completed with the result res
Done(task, res) == [task EXCEPT !.pc = "done", !.res = res]

\* get reads the cache file and completes
Read(t) ==
  /\ tasks[t].pc = "resolved"
  /\ tasks[t].op = "get"
  /\ ~Busy(ProcessOf(tasks[t].inst))
  /\ tasks' = [tasks EXCEPT ![t] = Done(tasks[t], ReadCache(disk, tasks[t].path))]
  /\ UNCHANGED <<disk, appRootPath, calls, last, written, setParams, left>>

\* a set that begins to write: it fails where the file cannot be created,
\* and else has created or truncated the file
Opened(task, d) ==
  IF Writable(d, task.path.path)
    THEN [task EXCEPT !.pc = "writing"]
    ELSE Done(task, WriteCache(d, task.path, task.arg).res)

\* outputFileSync begins: the folders are made and the file is opened for
\* writing, which creates it or truncates it
Open(t) ==
  /\ tasks[t].pc = "resolved"
  /\ tasks[t].op = "set"
  /\ ~Busy(ProcessOf(tasks[t].inst))
  /\ disk' = WriteCache(disk, tasks[t].path, "").disk
  /\ written' = written \cup (DOMAIN WriteCache(disk, tasks[t].path, "").disk
                                \ DOMAIN disk)
  /\ tasks' = [tasks EXCEPT ![t] = Opened(tasks[t], disk)]
  /\ UNCHANGED <<appRootPath, calls, last, setParams, left>>

\* the disk after the content was written through the open file: a file
\* that was removed meanwhile stays removed
WriteOpened(d, q, content) ==
  IF q \in DOMAIN d THEN outputFileSync(d, q, content) ELSE d

\* outputFileSync ends: the content is written and set completes
Write(t) ==
  /\ tasks[t].pc = "writing"
  /\ disk' = WriteOpened(disk, tasks[t].path.path, tasks[t].arg)
  /\ tasks' = [tasks EXCEPT ![t] =
                 Done(tasks[t], [kind |-> "return", val |-> << >>])]
  /\ UNCHANGED <<appRootPath, calls, last, written, setParams, left>>

\* a clear that begins to remove: there is nothing to do where the folder
\* does not exist
Unlinked(task, d) ==
  IF FolderFiles(d, FolderOf(task.path)) = {}
    THEN Done(task, RemoveCache(d, FolderOf(task.path)).res)
    ELSE [task EXCEPT !.pc = "removing"]

\* removeSync begins: the files of the folder are removed
Unlink(t) ==
  /\ tasks[t].pc = "resolved"
  /\ tasks[t].op = "clear"
  /\ ~Busy(ProcessOf(tasks[t].inst))
  /\ disk' = RemoveCache(disk, FolderOf(tasks[t].path)).disk
  /\ tasks' = [tasks EXCEPT ![t] = Unlinked(tasks[t], disk)]
  /\ UNCHANGED <<appRootPath, calls, last, written, setParams, left>>

\* a clear after the removal of the folder itself, which fails if a file
\* was put into the folder meanwhile
Removed(task, d) ==
  IF FolderFiles(d, FolderOf(task.path)) = {}
    THEN Done(task, [kind |-> "return", val |-> << >>])
    ELSE Done(task, [kind |-> "throw", err |-> "ENOTEMPTY"])

\* removeSync ends: the folder is removed and clear completes
Rmdir(t) ==
  /\ tasks[t].pc = "removing"
  /\ tasks' = [tasks EXCEPT ![t] = Removed(tasks[t], disk)]
  /\ UNCHANGED <<disk, appRootPath, calls, last, written, setParams, left>>

InitAsync ==
  /\ Fresh
  /\ disk = [f \in SourceFiles |-> "x"]
  /\ left = MaxTasks

NextAsync ==
  \/ \E op \in Operations, i \in Insts, cacheParams \in AsyncParams :
       \E arg \in ArgsOf(op) : Call(op, i, cacheParams, arg)
  \/ \E t \in DOMAIN tasks : Located(t)
  \/ \E t \in DOMAIN tasks : NotLocated(t)
  \/ \E t \in DOMAIN tasks : Resume(t)
  \/ \E t \in DOMAIN tasks : Read(t)
  \/ \E t \in DOMAIN tasks : Open(t)
  \/ \E t \in DOMAIN tasks : Write(t)
  \/ \E t \in DOMAIN tasks : Unlink(t)
  \/ \E t \in DOMAIN tasks : Rmdir(t)

SpecAsync == InitAsync /\ [][NextAsync]_vars

(***************************************************************************)
(* Concurrent calls under fair scheduling: the event loop runs every        *)
(* continuation that is ready, a synchronous file system operation that has *)
(* begun ends, and the locator answers every call that waits for it.  The   *)
(* callers are free to call or not.                                         *)
(***************************************************************************)
\* the requests of these calls: the real request for a.t, whose source file
\* exists, and the real request for d/a.t, whose source file does not
LiveParams ==
  { RealRequest,
    [RealRequest EXCEPT !.filePath = <<"d", "/", "a", ".", "t">>] }

InitLive ==
  /\ Fresh
  /\ disk = [f \in SourceFiles |-> "x"]
  /\ left = MaxTasksLive

\* the locator answers the call t
Respond(t) ==
  /\ t \in DOMAIN tasks
  /\ \/ Located(t)
     \/ NotLocated(t)

\* the call t goes on: its continuation runs, or the synchronous file system
\* operation it is in ends
Continue(t) ==
  /\ t \in DOMAIN tasks
  /\ \/ Resume(t)
     \/ Read(t)
     \/ Open(t)
     \/ Write(t)
     \/ Unlink(t)
     \/ Rmdir(t)

\* can the call t go on: the guards of the steps of Continue(t), each of
\* which changes tasks[t].pc
CanContinue(t) ==
  /\ t \in DOMAIN tasks
  /\ \/ tasks[t].pc \in {"writing", "removing"}
     \/ /\ tasks[t].pc \in {"rooted", "resolved"}
        /\ ~Busy(ProcessOf(tasks[t].inst))

\* weak fairness of Continue(t), with CanContinue(t) for
\* ENABLED <<Continue(t)>>_vars
Scheduled(t) ==
  \/ []<>(~CanContinue(t))
  \/ []<><<Continue(t)>>_vars

NextLive ==
  \/ \E op \in Operations, i \in Insts, cacheParams \in LiveParams :
       \E arg \in ArgsOf(op) : Call(op, i, cacheParams, arg)
  \/ \E t \in 1..MaxTasksLive : Respond(t)
  \/ \E t \in 1..MaxTasksLive : Continue(t)

SpecLive ==
  /\ InitLive
  /\ [][NextLive]_vars
  /\ \A t \in 1..MaxTasksLive : WF_vars(Respond(t))
  /\ \A t \in 1..MaxTasksLive : Scheduled(t)

(***************************************************************************)
(* Runs of one instance over file paths of many shapes, with two file       *)
(* extensions: the source file /r/a.t holds "x" and is not changed by the   *)
(* environment.                                                             *)
(***************************************************************************)
\* the filePath values: the source file a.t; a.j, which differs from it in
\* the extension only; a-b.t and /r/a/b.t, which differ in "-" versus "/";
\* the dot-file .babelrc; the segments "." and ".."; and a.t/b.t, a path
\* through the regular file a.t
PathShapes ==
  { <<"a", ".", "t">>,
    <<"a", ".", "j">>,
    <<"a", "-", "b", ".", "t">>,
    <<"/", "r", "/", "a", "/", "b", ".", "t">>,
    <<".", "b", "a", "b", "e", "l", "r", "c">>,
    <<".">>,
    <<".", ".">>,
    <<"a", ".", "t", "/", "b", ".", "t">> }

\* the fileExtension values of these runs
PathExtensions == { <<".", "j">>, <<".", "k">> }

PathParams ==
  [filePath      : PathShapes,
   fileContent   : { << >>, <<"x">>, <<"y">> },
   fileExtension : PathExtensions]

InitPaths ==
  /\ Fresh
  /\ disk = [f \in SourceFiles |-> "x"]
  /\ left = MaxOpsPaths

NextPaths ==
  \/ \E cacheParams \in PathParams : Get(1, cacheParams)
  \/ \E cacheParams \in PathParams, contentToCache \in Artifacts :
       Set(1, cacheParams, contentToCache)
  \/ \E cacheParams \in PathParams : Clear(1, cacheParams)

SpecPaths == InitPaths /\ [][NextPaths]_vars

(***************************************************************************)
(* The naming functions applied to file paths built of directory segments  *)
(* and a file name: the path is drawn at the start, then named.            *)
(***************************************************************************)
Segments == { <<"a">>, <<"b">>, <<"c">> }
BaseNames == { <<"f">>, <<"f", "i", "l", "e">> }
SourceExtensions == { <<"e">>, <<"e", "x", "t">> }

\* the file paths d1/.../dn/base.ext, n <= MaxDirs, with or without a leading
\* separator, by their parts
NamedPaths ==
  [dirs    : UNION { [1..n -> Segments] : n \in 0..MaxDirs },
   base    : BaseNames,
   ext     : SourceExtensions,
   leading : BOOLEAN]

\* the filePath string of the parts
PathOf(parts) ==
  (IF parts.leading THEN <<"/">> ELSE << >>)
    \o Join(Append(parts.dirs, parts.base \o <<".">> \o parts.ext), <<"/">>)

InitNaming ==
  /\ disk = << >>
  /\ appRootPath = [i \in Insts |-> << >>]
  /\ calls = [i \in Insts |-> 0]
  /\ \E parts \in NamedPaths : last = [op |-> "path", parts |-> parts]
  /\ written = {}
  /\ setParams = {}
  /\ tasks = << >>
  /\ left = 1

\* generateCacheFolderName is applied to the path drawn
FolderName ==
  /\ left > 0
  /\ last.op = "path"
  /\ last' = [op    |-> "generateCacheFolderName",
              parts |-> last.parts,
              res   |-> generateCacheFolderName(PathOf(last.parts))]
  /\ left' = left - 1
  /\ UNCHANGED <<disk, appRootPath, calls, written, setParams, tasks>>

NextNaming == FolderName

SpecNaming == InitNaming /\ [][NextNaming]_vars

(***************************************************************************)
(* The file naming functions applied to a content and a file extension: the *)
(* two are drawn at the start, then the file is named.                      *)
(***************************************************************************)
ExtensionChars == {".", "j", "s"}

\* the fileExtension strings of up to MaxExt characters ("" included)
NamedExtensions == UNION { [1..n -> ExtensionChars] : n \in 0..MaxExt }

InitFileNaming ==
  /\ disk = << >>
  /\ appRootPath = [i \in Insts |-> << >>]
  /\ calls = [i \in Insts |-> 0]
  /\ \E content \in SourceContents, e \in NamedExtensions :
       last = [op |-> "name", content |-> content, ext |-> e]
  /\ written = {}
  /\ setParams = {}
  /\ tasks = << >>
  /\ left = 1

\* generateHash and generateCacheFileName are applied to the input drawn
FileName ==
  /\ left > 0
  /\ last.op = "name"
  /\ last' = [op      |-> "generateCacheFileName",
              content |-> last.content,
              ext     |-> last.ext,
              hash    |-> generateHash(last.content),
              res     |-> generateCacheFileName(last.content, last.ext)]
  /\ left' = left - 1
  /\ UNCHANGED <<disk, appRootPath, calls, written, setParams, tasks>>

NextFileNaming == FileName

SpecFileNaming == InitFileNaming /\ [][NextFileNaming]_vars

(***************************************************************************)
(* absolutePathToRelative applied to a path and a project root: the two are *)
(* drawn at the start, then the path is made relative.                      *)
(***************************************************************************)
\* the directory names of these paths: r and d, the segments of the roots,
\* and rx, which begins like r
RootSegments == { <<"r">>, <<"d">>, <<"r", "x">> }

\* the project roots: /r and /r/d
ProjectRoots == { <<"/", "r">>, <<"/", "r", "/", "d">> }

\* the paths d1/.../dn/a.t, n <= MaxDirs, relative and absolute
RootedPaths ==
  { (IF leading THEN <<"/">> ELSE << >>)
      \o Join(Append(dirs, <<"a", ".", "t">>), <<"/">>) :
      dirs \in UNION { [1..n -> RootSegments] : n \in 0..MaxDirs },
      leading \in BOOLEAN }

InitRelative ==
  /\ disk = << >>
  /\ appRootPath = [i \in Insts |-> << >>]
  /\ calls = [i \in Insts |-> 0]
  /\ \E pathToModify \in RootedPaths, root \in ProjectRoots :
       last = [op |-> "pathToModify", path |-> pathToModify, root |-> root]
  /\ written = {}
  /\ setParams = {}
  /\ tasks = << >>
  /\ left = 1

\* absolutePathToRelative is applied to the path and the root drawn
MakeRelative ==
  /\ left > 0
  /\ last.op = "pathToModify"
  /\ last' = [op   |-> "absolutePathToRelative",
              path |-> last.path,
              root |-> last.root,
              res  |-> absolutePathToRelative(last.path, last.root)]
  /\ left' = left - 1
  /\ UNCHANGED <<disk, appRootPath, calls, written, setParams, tasks>>

NextRelative == MakeRelative

SpecRelative == InitRelative /\ [][NextRelative]_vars

(***************************************************************************)
(* Properties.                                                             *)
(***************************************************************************)
\* the value get returns on a miss
Null == [kind |-> "return", val |-> << >>]

\* has the call l returned the value v
Returned(l, v) == l.res.kind = "return" /\ l.res.val = v

\* has the call l failed with the error of a missing source file, naming path
MissingSourceFile(l, path) ==
  /\ l.res.kind = "throw"
  /\ l.res.err = "There is no such a file"
  /\ l.res.path = path

\* the call l came right after a set of the same instance with the same
\* CacheParams that succeeded
AfterSameSet(l) ==
  /\ l.prev.op = "set"
  /\ l.prev.ok
  /\ l.prev.sameReq
  /\ l.prev.sameInst

\* can the content of the request be loaded: fileContent supplied and not
\* empty, or no fileContent and the source file present and not empty
ContentCanBeLoaded(d, cacheParams) ==
  IF cacheParams.fileContent # << >>
    THEN cacheParams.fileContent[1] # ""
    ELSE /\ Resolve(cacheParams.filePath) \in DOMAIN d
         /\ d[Resolve(cacheParams.filePath)] # ""

\* C1: for every request whose content can be loaded (virtual, or real with
\* the source file present) a set succeeds and leaves the artifact where a
\* get of the same request finds it, and a get that follows the set at once
\* returns exactly the artifact, whatever the cache held before.
RoundTrip ==
  /\ (last.op = "set" /\ ContentCanBeLoaded(disk, last.req))
       => /\ Returned(last, << >>)
          /\ Returned([res |-> getResult(disk, CacheFolderPaths[last.inst],
                                         last.req, Root)],
                      <<last.arg>>)
  /\ (/\ last.op = "get"
      /\ last.prev.op = "set"
      /\ last.prev.sameReq
      /\ last.prev.sameInst
      /\ ContentCanBeLoaded(disk, last.req))
       => Returned(last, <<last.prev.arg>>)

\* C2 as stated, for the requests that name their content: a get whose
\* request (filePath, fileContent, fileExtension) was never passed to set
\* returns null and does not fail.
MissIfRequestNeverSet ==
  (/\ last.op = "get"
   /\ Truthy(last.req.fileContent)
   /\ last.req \notin setParams)
    => last.res = Null

\* C2 amended: a get whose content loads returns null and does not fail when
\* no set has created the cache file the request resolves to.
MissIfFileNeverSet ==
  (/\ last.op = "get"
   /\ generatePathToCacheFile(disk, CacheFolderPaths[last.inst], last.req, Root).kind
        = "return"
   /\ generatePathToCacheFile(disk, CacheFolderPaths[last.inst], last.req, Root).path
        \notin written)
    => last.res = Null

\* C2 witness: a miss right after a set that stored another request
MissWitness ==
  /\ last.op = "get"
  /\ last.prev.op = "set"
  /\ last.prev.ok
  /\ ~last.prev.sameReq
  /\ written # {}
  /\ last.res = Null

\* the virtual requests for the revisions of the file of cacheParams
Revisions(cacheParams) ==
  { [filePath      |-> cacheParams.filePath,
     fileContent   |-> <<c>>,
     fileExtension |-> e] : c \in SourceContents \ {""}, e \in FileExtensions }

\* C3: after a clear with a file path and a content, a get for any content
\* revision of that file path returns null: the folder is gone with all of
\* its revisions.
Invalidation ==
  /\ (/\ last.op = "clear"
      /\ last.res.kind = "return"
      /\ Truthy(last.req.fileContent))
       => \A r \in Revisions(last.req) :
            getResult(disk, CacheFolderPaths[last.inst], r, Root) = Null
  /\ (/\ last.op = "get"
      /\ last.prev.op = "clear"
      /\ last.prev.ok
      /\ last.prev.samePath
      /\ last.res.kind = "return")
       => last.res = Null

\* C3 witness: a clear with one content has removed the artifacts of two
\* revisions
InvalidationWitness ==
  /\ last.op = "clear"
  /\ last.res.kind = "return"
  /\ last.req.fileContent = <<"x">>
  /\ last.found = 2
  /\ last.count = 2

\* C4: the folder name of d1/.../dn/base.ext is d1-...-dn-base (base alone
\* when n = 0), with or without a leading separator.
FolderNaming ==
  last.op = "generateCacheFolderName"
    => last.res = Join(Append(last.parts.dirs, last.parts.base), <<"-">>)

\* a file path as project-root-relative: an absolute path without the root
RelativeToRoot(filePath) ==
  IF IsAbsolute(filePath)
    THEN SubSeq(filePath, Len(Root) + 1, Len(filePath))
    ELSE filePath

Outcome(op, d, i, cacheParams) ==
  CASE op = "get" ->
         [res  |-> getResult(d, CacheFolderPaths[i], cacheParams, Root),
          disk |-> d]
    [] op = "set" ->
         setResult(d, CacheFolderPaths[i], cacheParams, "P", Root)
    [] op = "clear" ->
         clearResult(d, CacheFolderPaths[i], cacheParams, Root)

\* the disks that differ from d in the file f alone: f absent, f with any content
SourceVariants(d, f) ==
  {RemoveTree(d, f)} \cup { outputFileSync(d, f, c) : c \in SourceContents }

\* two results of the same kind: the same value returned, or the same error
\* thrown (whatever path its message names)
SameResult(r1, r2) ==
  /\ r1.kind = r2.kind
  /\ r1.kind = "return" => r1.val = r2.val
  /\ r1.kind = "throw" => r1.err = r2.err

\* two outcomes with the same result and the same disk
SameOutcome(o1, o2) == SameResult(o1.res, o2.res) /\ o1.disk = o2.disk

\* two outcomes with the same result and the same files other than f
SameOutcomeBut(o1, o2, f) ==
  /\ SameResult(o1.res, o2.res)
  /\ RemoveTree(o1.disk, f) = RemoveTree(o2.disk, f)

\* C6: with fileContent supplied (any string), the outcome of get, set and
\* clear is the same whether or not the file at filePath exists and whatever
\* it contains.
VirtualIgnoresSource ==
  \A i \in Insts, cacheParams \in CacheParams :
    cacheParams.fileContent # << >>
      => \A alt \in SourceVariants(disk, Resolve(cacheParams.filePath)),
            op \in Operations :
           SameOutcomeBut(Outcome(op, disk, i, cacheParams),
                          Outcome(op, alt, i, cacheParams),
                          Resolve(cacheParams.filePath))

\* C7: when the source file at filePath exists with content X, every
\* operation with {filePath, fileExtension} has the outcome of the operation
\* with {filePath, fileContent: X, fileExtension}.
RealEqualsVirtual ==
  \A i \in Insts, filePath \in FilePaths, e \in FileExtensions, op \in Operations :
    Resolve(filePath) \in DOMAIN disk
      => SameOutcome(Outcome(op, disk, i,
                             [filePath |-> filePath, fileContent |-> << >>,
                              fileExtension |-> e]),
                     Outcome(op, disk, i,
                             [filePath |-> filePath,
                              fileContent |-> <<disk[Resolve(filePath)]>>,
                              fileExtension |-> e]))

\* C8: an operation given the absolute path of a file of the project has the
\* outcome of the operation given the path relative to the project root.
AbsoluteEqualsRelative ==
  \A i \in Insts, cacheParams \in CacheParams, op \in Operations :
    ~IsAbsolute(cacheParams.filePath)
      => SameOutcome(Outcome(op, disk, i, cacheParams),
                     Outcome(op, disk, i,
                             [cacheParams EXCEPT
                                !.filePath = Root \o <<"/">> \o cacheParams.filePath]))

\* C9: the instance with the absolute and the instance with the relative
\* cacheFolderPath resolve a request to the same cache file, and a get of one
\* returns the artifact that a set of the other has just stored.
SharedCacheFolder ==
  /\ last.op \in Operations
       => generatePathToCacheFile(disk, CacheFolderPaths[1], last.req, Root)
            = generatePathToCacheFile(disk, CacheFolderPaths[2], last.req, Root)
  /\ (/\ last.op = "get"
      /\ last.prev.op = "set"
      /\ last.prev.ok
      /\ last.prev.sameReq
      /\ ~last.prev.sameInst)
       => Returned(last, <<last.prev.arg>>)

\* C9 witness: the instance with the absolute cacheFolderPath gets what the
\* instance with the relative one has set
SharedCacheFolderWitness ==
  /\ last.op = "get"
  /\ last.inst = 2
  /\ last.prev.op = "set"
  /\ last.prev.ok
  /\ last.prev.sameReq
  /\ ~last.prev.sameInst
  /\ Returned(last, <<"P">>)

\* C10: a set that repeats the set before it (same request, same artifact)
\* succeeds, adds no file and leaves the disk as it was, with the artifact in
\* the cache file; a folder that was empty before the first of the two holds
\* exactly one file.
IdempotentWrite ==
  (/\ last.op = "set"
   /\ AfterSameSet(last)
   /\ last.prev.arg = last.arg)
    => /\ Returned(last, << >>)
       /\ ~last.changed
       /\ last.count = 0
       /\ getResult(disk, CacheFolderPaths[last.inst], last.req, Root).val
            = <<last.arg>>
       /\ last.found = last.prev.found + last.prev.count
       /\ Cardinality(FolderFiles(disk,
            generatePathToFileCacheFolder(disk, CacheFolderPaths[last.inst],
                                          last.req, Root))) = last.found
       /\ last.prev.found = 0 => last.found = 1

\* C10 witness: the second of two identical sets into a folder that was empty
IdempotentWriteWitness ==
  /\ last.op = "set"
  /\ AfterSameSet(last)
  /\ last.prev.arg = last.arg
  /\ last.prev.found = 0
  /\ last.found = 1
  /\ ~last.changed

\* the hexadecimal digits
HexDigits ==
  {"0", "1", "2", "3", "4", "5", "6", "7", "8", "9", "a", "b", "c", "d", "e", "f"}

\* C17: generateCacheFileName(content, extension) is generateHash(content)
\* followed by the extension verbatim, and generateHash(content) is a string
\* of exactly 10 characters (hexadecimal digits), the same whenever it is
\* computed for the content.
FileNaming ==
  last.op = "generateCacheFileName"
    => /\ last.res = generateHash(last.content) \o last.ext
       /\ Len(last.hash) = 10
       /\ \A k \in 1..Len(last.hash) : last.hash[k] \in HexDigits
       /\ last.hash = generateHash(last.content)
       /\ Len(last.res) = 10 + Len(last.ext)
       /\ SubSeq(last.res, 1, 10) = last.hash
       /\ SubSeq(last.res, 11, Len(last.res)) = last.ext

\* C17 witness: the file of content "x" and extension ".js" has been named
FileNamingWitness ==
  /\ last.op = "generateCacheFileName"
  /\ last.content = "x"
  /\ last.ext = <<".", "j", "s">>
  /\ last.res = <<"9", "d", "d", "4", "e", "4", "6", "1", "2", "6", ".", "j", "s">>

\* C12: a clear whose request loads and whose cache folder does not exist
\* returns without error and leaves the disk as it was; so a clear that
\* repeats the clear before it changes nothing.
ClearAbsentFolder ==
  /\ (/\ last.op = "clear"
      /\ prepareCacheParams(disk, last.req, Root).kind = "return"
      /\ last.found = 0)
       => /\ Returned(last, << >>)
          /\ ~last.changed
  /\ (/\ last.op = "clear"
      /\ last.prev.op = "clear"
      /\ last.prev.ok
      /\ last.prev.sameReq
      /\ last.prev.sameInst)
       => /\ Returned(last, << >>)
          /\ last.found = 0
          /\ ~last.changed

\* C12 witness: the second of two clears of a request, the first of which
\* removed the folder with an artifact in it
ClearAbsentFolderWitness ==
  /\ last.op = "clear"
  /\ last.prev.op = "clear"
  /\ last.prev.ok
  /\ last.prev.sameReq
  /\ last.prev.count > 0
  /\ Returned(last, << >>)
  /\ ~last.changed

\* C20: a clear without fileContent whose source file does not exist fails
\* with the missing-source-file error and leaves the disk as it was: the
\* artifacts cached for the file path stay.
ClearLoadsSource ==
  (/\ last.op = "clear"
   /\ last.req.fileContent = << >>
   /\ Resolve(last.req.filePath) \notin DOMAIN disk)
    => /\ MissingSourceFile(last, RelativeToRoot(last.req.filePath))
       /\ ~last.changed

\* C20 witness: a clear for a missing source file has failed right after a
\* set for the same file path stored an artifact, which is still there
ClearLoadsSourceWitness ==
  /\ last.op = "clear"
  /\ last.req.fileContent = << >>
  /\ Resolve(last.req.filePath) \notin DOMAIN disk
  /\ last.res.kind = "throw"
  /\ last.prev.op = "set"
  /\ last.prev.ok
  /\ last.prev.samePath
  /\ last.prev.count = 1
  /\ written # {}
  /\ written \subseteq DOMAIN disk

\* the disk after instance 1 has set the artifact a for the real request
AfterRealSet(d, a) ==
  setResult(d, CacheFolderPaths[1], RealRequest, a, Root).disk

\* the disk after the source file of the real request was changed to c
AfterEdit(d, c) == outputFileSync(d, Resolve(RealRequest.filePath), c)

\* what get returns for the real request on disk d
RealGet(d) == getResult(d, CacheFolderPaths[1], RealRequest, Root)

\* the cache file of the content c of the real request
RevisionFile(d, c) ==
  generatePathToCacheFile(d, CacheFolderPaths[1], VirtualRequest(c), Root).path

\* the disk after: set "P", source changed to c2, set "Q"
AfterTwoRevisions(d, c2) ==
  AfterRealSet(AfterEdit(AfterRealSet(d, "P"), c2), "Q")

\* C18: from every state in which the source file holds c1, for every c2 of
\* another hash: after set under c1 and the change of the file to c2, get
\* returns null (unless an artifact of c2 was there already); after a set
\* under c2 the two artifacts are two files of one folder; and after the
\* change of the file back to c1, get returns the artifact set under c1.
ContentRevisions ==
  \A c1 \in SourceContents \ {""}, c2 \in SourceContents \ {""} :
    (/\ Resolve(RealRequest.filePath) \in DOMAIN disk
     /\ disk[Resolve(RealRequest.filePath)] = c1
     /\ generateHash(c1) # generateHash(c2))
      => /\ RealGet(AfterRealSet(disk, "P")) = [kind |-> "return", val |-> <<"P">>]
         /\ RevisionFile(disk, c2) \notin DOMAIN disk
              => RealGet(AfterEdit(AfterRealSet(disk, "P"), c2)) = Null
         /\ RevisionFile(disk, c1) # RevisionFile(disk, c2)
         /\ Dirname(RevisionFile(disk, c1)) = Dirname(RevisionFile(disk, c2))
         /\ RevisionFile(disk, c1) \in DOMAIN AfterTwoRevisions(disk, c2)
         /\ RevisionFile(disk, c2) \in DOMAIN AfterTwoRevisions(disk, c2)
         /\ AfterTwoRevisions(disk, c2)[RevisionFile(disk, c1)] = "P"
         /\ AfterTwoRevisions(disk, c2)[RevisionFile(disk, c2)] = "Q"
         /\ RealGet(AfterTwoRevisions(disk, c2))
              = [kind |-> "return", val |-> <<"Q">>]
         /\ RealGet(AfterEdit(AfterTwoRevisions(disk, c2), c1))
              = [kind |-> "return", val |-> <<"P">>]

\* C18 witness: a run in which only the real request was set, under "x" and
\* then under "y", and the source file was changed back to "x": both
\* artifacts are in the folder and get returns the one set under "x"
ContentRevisionsWitness ==
  /\ last.op = "source"
  /\ setParams = {RealRequest}
  /\ Resolve(RealRequest.filePath) \in DOMAIN disk
  /\ disk[Resolve(RealRequest.filePath)] = "x"
  /\ written = {RevisionFile(disk, "x"), RevisionFile(disk, "y")}
  /\ written \subseteq DOMAIN disk
  /\ disk[RevisionFile(disk, "x")] = "P"
  /\ disk[RevisionFile(disk, "y")] = "Q"
  /\ RealGet(disk) = [kind |-> "return", val |-> <<"P">>]

\* does get return an artifact for the request r of instance i on disk d
Cached(d, i, r) ==
  /\ getResult(d, CacheFolderPaths[i], r, Root).kind = "return"
  /\ getResult(d, CacheFolderPaths[i], r, Root).val # << >>

\* the request r has been set and get returns an artifact for it before the
\* step, and get returns the same artifact after the step
StillCached(i, r) ==
  Cached(disk, i, r)
    => getResult(disk', CacheFolderPaths[i], r, Root)
         = getResult(disk, CacheFolderPaths[i], r, Root)

\* C19 as stated, for the requests that do not name an empty content: a get,
\* and a set on a request that differs from r in filePath or in fileContent,
\* leaves what get returns for every request r that was set.
NoExpiryByRequest ==
  [][(\/ last'.op = "get"
      \/ (last'.op = "set" /\ last'.req.fileContent # <<"">>))
      => \A r \in setParams :
           (/\ r.fileContent # <<"">>
            /\ last'.op = "set"
                 => (\/ last'.req.filePath # r.filePath
                     \/ last'.req.fileContent # r.fileContent))
             => StillCached(last'.inst, r)]_vars

\* C19 amended: a get, and a set on a request that resolves to another cache
\* file than r, leaves what get returns for every request r that was set.
NoExpiryByFile ==
  [][last'.op \in {"get", "set"}
      => \A r \in setParams :
           (last'.op = "set"
              => generatePathToCacheFile(disk, CacheFolderPaths[last'.inst],
                                         last'.req, Root)
                   # generatePathToCacheFile(disk, CacheFolderPaths[last'.inst],
                                             r, Root))
             => StillCached(last'.inst, r)]_vars

\* C19 witness: a set has stored a second artifact in another cache file, and
\* get still returns an artifact for each of the two requests set
NoExpiryWitness ==
  /\ last.op = "set"
  /\ last.prev.op = "set"
  /\ last.prev.ok
  /\ ~last.prev.sameReq
  /\ last.prev.arg # last.arg
  /\ last.count = 1
  /\ Cardinality(written) = 2
  /\ written \subseteq DOMAIN disk
  /\ Cardinality(setParams) = 2
  /\ \A r \in setParams : Cached(disk, last.inst, r)

\* the cache directory of the two instances: /r/c
CacheDirectory == PathJoin(<<Root, absolutePathToRelative(CacheFolderPaths[1], Root)>>)

\* the files of disk d under the cache directory
CacheFiles(d) == { f \in DOMAIN d : IsUnder(f, CacheDirectory) }

\* the name of the file f within its folder
Basename(f) == SubSeq(f, Len(Dirname(f)) + 2, Len(f))

\* the file f was written by the set that made the step: it holds the
\* artifact passed and is named by the hash of the content of the request
WrittenBySet(f) ==
  /\ last'.op = "set"
  /\ disk'[f] = last'.arg
  /\ prepareCacheParams(disk, last'.req, Root).kind = "return"
  /\ Basename(f)
       = generateHash(prepareCacheParams(disk, last'.req, Root).fileContent)
           \o last'.req.fileExtension

\* C14: every file under the cache directory was created by a set and holds
\* an artifact, never a source content; and in every step a file under the
\* cache directory either keeps its content or was written by the set of
\* that step with its artifact argument, under the name made of the hash of
\* the content.
SourceNeverPersisted ==
  /\ [](\A f \in CacheFiles(disk) :
          /\ f \in written
          /\ disk[f] \in Artifacts
          /\ disk[f] \notin SourceContents)
  /\ [][\A f \in CacheFiles(disk') :
          \/ f \in DOMAIN disk /\ disk'[f] = disk[f]
          \/ WrittenBySet(f)]_vars

\* C14 witness: a set of a real request, whose content was read from the
\* source file, has stored its artifact: the cache holds nothing else
SourceNeverPersistedWitness ==
  /\ last.op = "set"
  /\ last.req.fileContent = << >>
  /\ Returned(last, << >>)
  /\ last.count = 1
  /\ CacheFiles(disk) # {}
  /\ \A f \in CacheFiles(disk) : disk[f] = last.arg

\* the result res of a get is what the read raw of the cache file gave: null
\* if the file does not exist, the error unchanged for any other failure
ReadOutcomeKept(res, raw) ==
  /\ raw.kind = "return" => res = raw
  /\ (raw.kind = "throw" /\ raw.err = "ENOENT") => res = Null
  /\ (raw.kind = "throw" /\ raw.err # "ENOENT") => (res = raw /\ res # Null)

\* C13: a get whose cache file path was resolved returns null only when the
\* read finds no file; when the read fails for another reason (the path is a
\* folder, or a part of the path is a file) get fails with that error.
GetPropagates ==
  (/\ last.op = "get"
   /\ generatePathToCacheFile(disk, CacheFolderPaths[last.inst], last.req, Root).kind
        = "return")
    => ReadOutcomeKept(last.res,
         readFileSync(disk,
           generatePathToCacheFile(disk, CacheFolderPaths[last.inst],
                                   last.req, Root).path))

\* C13 witness: a get has failed with the error of a read below a regular
\* file
GetPropagatesWitness ==
  /\ last.op = "get"
  /\ last.res.kind = "throw"
  /\ last.res.err = "ENOTDIR"

\* the calls of instance i whose own invocation of findPathToFile succeeded
LocatedBy(i) ==
  { t \in DOMAIN tasks :
      tasks[t].inst = i /\ tasks[t].located /\ tasks[t].root # << >> }

\* C11: over every interleaving of the calls of one instance, at most one
\* invocation of the project-root locator succeeds, and all calls of the
\* instance that have a root have the same root.
RootLocatedOnce ==
  \A i \in Insts :
    /\ Cardinality(LocatedBy(i)) <= 1
    /\ \A t1 \in DOMAIN tasks, t2 \in DOMAIN tasks :
         (/\ tasks[t1].inst = i /\ tasks[t2].inst = i
          /\ tasks[t1].root # << >> /\ tasks[t2].root # << >>)
           => tasks[t1].root = tasks[t2].root

\* the set calls that had completed without error before the call g started
SetsBefore(g) ==
  { t \in tasks[g].after :
      tasks[t].op = "set" /\ tasks[t].res.kind = "return" }

\* C15: when all the sets of a run store the same artifact a for the same
\* request and nothing is cleared, every get of that request whose project
\* root was found returns null or a, and returns a when two of the sets had
\* completed before it started.
IdenticalWriters ==
  \A a \in Artifacts :
    (\A t \in DOMAIN tasks :
       /\ tasks[t].op # "clear"
       /\ tasks[t].op = "set" => tasks[t].arg = a)
      => \A g \in DOMAIN tasks :
           (tasks[g].op = "get" /\ tasks[g].pc = "done" /\ ~tasks[g].rejected)
             => /\ tasks[g].res \in {Null, [kind |-> "return", val |-> <<a>>]}
                /\ Cardinality(SetsBefore(g)) >= 2
                     => tasks[g].res = [kind |-> "return", val |-> <<a>>]

\* C16: a call whose project-root locator has failed is over, has failed
\* with the failure of the locator (a get has not returned null) and has
\* resolved no path; and no step of such a call changes the disk.
RootNotFoundFatal ==
  /\ [](\A t \in DOMAIN tasks :
          tasks[t].rejected
            => /\ tasks[t].pc = "done"
               /\ tasks[t].res = [kind |-> "throw", err |-> "findPathToFile"]
               /\ tasks[t].res # Null
               /\ tasks[t].path = Pending)
  /\ [][\A t \in DOMAIN tasks :
          (tasks'[t].rejected /\ tasks'[t] # tasks[t])
            => (disk' = disk /\ written' = written)]_vars

\* C16 witness: the locator has failed for a clear, while the artifact that a
\* set of the other instance has stored is in the cache
RootNotFoundFatalWitness ==
  \E t \in DOMAIN tasks :
    /\ tasks[t].rejected
    /\ tasks[t].op = "clear"
    /\ tasks[t].pc = "done"
    /\ written # {}
    /\ written \subseteq DOMAIN disk

\* the folder of the cache of filePath for instance i: the project root, the
\* cache directory and the folder name of the path relative to the root
FolderByPath(i, filePath) ==
  PathJoin(<<Root, absolutePathToRelative(CacheFolderPaths[i], Root),
             generateCacheFolderName(absolutePathToRelative(filePath, Root))>>)

\* the requests with the filePath of cacheParams that a clear on disk d
\* resolves to a folder
SamePathRequests(d, i, cacheParams) ==
  { r \in PathParams :
      /\ r.filePath = cacheParams.filePath
      /\ generatePathToFileCacheFolder(d, CacheFolderPaths[i], r, Root).kind
           = "return" }

\* C21: a clear that succeeds removes exactly the folder that the filePath
\* of its request names: the disk afterwards is the disk before without that
\* folder, no revision is left in it, and a clear with the same filePath and
\* any other content or extension would have had the same result.
ClearByPathOnly ==
  [][(last'.op = "clear" /\ last'.res.kind = "return")
      => /\ disk' = RemoveTree(disk, FolderByPath(last'.inst, last'.req.filePath))
         /\ FolderFiles(disk', [kind |-> "return",
                                 path |-> FolderByPath(last'.inst,
                                                       last'.req.filePath)]) = {}
         /\ \A r \in SamePathRequests(disk, last'.inst, last'.req) :
              clearResult(disk, CacheFolderPaths[last'.inst], r, Root)
                = [res |-> last'.res, disk |-> disk']]_vars

\* C21 witness: a clear of the real request for a.t with the extension .j
\* has removed the revision that a set had stored for the content "y" with
\* the extension .k
ClearByPathOnlyWitness ==
  /\ last.op = "clear"
  /\ last.res.kind = "return"
  /\ last.req.filePath = <<"a", ".", "t">>
  /\ last.req.fileContent = << >>
  /\ last.req.fileExtension = <<".", "j">>
  /\ last.count = 1
  /\ written = { PathJoin(<<Root, <<"c">>, <<"a">>,
                            generateCacheFileName("y", <<".", "k">>)>>) }
  /\ written \cap DOMAIN disk = {}

\* C22: a get, set or clear without fileContent whose source file exists and
\* is empty fails with the missing-source-file error that names the relative
\* path, and leaves the disk as it was.
EmptyContentRejected ==
  (/\ last.op \in Operations
   /\ last.req.fileContent = << >>
   /\ Resolve(last.req.filePath) \in DOMAIN disk
   /\ disk[Resolve(last.req.filePath)] = "")
    => /\ MissingSourceFile(last, RelativeToRoot(last.req.filePath))
       /\ last.res # Null
       /\ ~last.changed

\* C22 witness: a clear for the empty source file has failed right after a
\* set stored an artifact for the same file path, which is still there
EmptyContentRejectedWitness ==
  /\ last.op = "clear"
  /\ last.req.fileContent = << >>
  /\ Resolve(last.req.filePath) \in DOMAIN disk
  /\ disk[Resolve(last.req.filePath)] = ""
  /\ last.res.kind = "throw"
  /\ last.prev.op = "set"
  /\ last.prev.ok
  /\ last.prev.samePath
  /\ last.prev.count = 1
  /\ written # {}
  /\ written \subseteq DOMAIN disk

\* the path p without the root at its start, if p is absolute and begins
\* with the root; else p
LeadingRootStripped(p, root) ==
  IF IsAbsolute(p) /\ OccursAt(p, root, 1)
    THEN SubSeq(p, Len(root) + 1, Len(p))
    ELSE p

\* C23: absolutePathToRelative returns a relative path unchanged, returns an
\* absolute path that begins with the project root without that prefix, and
\* changes no other path.
OnlyLeadingRootStripped ==
  last.op = "absolutePathToRelative"
    => last.res = LeadingRootStripped(last.path, last.root)

\* what reading the source file of cacheParams gives on disk d: the file at
\* the filePath made relative
SourceRead(d, cacheParams) ==
  readFileSync(d, absolutePathToRelative(cacheParams.filePath, Root))

\* C24: a get, set or clear without fileContent whose read of the source
\* file fails for another reason than a missing file (the path is a folder,
\* or a part of the path is a file) fails with the error of the read, not
\* with the missing-source-file error and not with null, and leaves the disk
\* as it was.
SourceErrorPropagates ==
  (/\ last.op \in Operations
   /\ last.req.fileContent = << >>
   /\ SourceRead(disk, last.req).kind = "throw"
   /\ SourceRead(disk, last.req).err # "ENOENT")
    => /\ last.res = SourceRead(disk, last.req)
       /\ last.res.err # "There is no such a file"
       /\ last.res # Null
       /\ ~last.changed

\* C24 witness: a clear whose filePath names a folder has failed with EISDIR
\* right after a set stored an artifact, which is still there
SourceErrorPropagatesWitness ==
  /\ last.op = "clear"
  /\ last.req.filePath = <<".">>
  /\ last.req.fileContent = << >>
  /\ last.res = [kind |-> "throw", err |-> "EISDIR"]
  /\ last.prev.op = "set"
  /\ last.prev.ok
  /\ written # {}
  /\ written \subseteq DOMAIN disk

\* how far a call has come
Rank(pc) ==
  CASE pc = "locating" -> 0
    [] pc = "rooted"   -> 1
    [] pc = "resolved" -> 2
    [] pc \in {"writing", "removing"} -> 3
    [] pc = "done"     -> 4

\* C25: every call that was started is over at some time, with a result or
\* with a failure; and every step of a call takes it further, none takes it
\* back to an earlier point.
EveryCallCompletes ==
  /\ \A t \in 1..MaxTasksLive :
       (Len(tasks) >= t)
         ~> (/\ Len(tasks) >= t
             /\ tasks[t].pc = "done"
             /\ tasks[t].res.kind \in {"return", "throw"})
  /\ [][\A t \in DOMAIN tasks :
          tasks'[t] # tasks[t] => Rank(tasks'[t].pc) > Rank(tasks[t].pc)]_vars

\* C25 witness: two calls that ran at the same time are over, the first with
\* the failure of its load, the second with a result
EveryCallCompletesWitness ==
  /\ Len(tasks) = 2
  /\ tasks[2].after = {}
  /\ tasks[1].pc = "done"
  /\ tasks[1].res.kind = "throw"
  /\ tasks[1].res.err = "There is no such a file"
  /\ tasks[2].pc = "done"
  /\ tasks[2].res.kind = "return"

\* the cache file that the set l has written
FileOfSet(d, l) ==
  generatePathToCacheFile(d, CacheFolderPaths[l.inst], l.req, Root).path

\* C26: a clear with the filePath P, right after a set with a filePath Q that
\* names another file has stored an artifact, leaves that artifact in its
\* cache file.
ClearIsolated ==
  [][(/\ last'.op = "clear"
      /\ last.op = "set"
      /\ last.res.kind = "return"
      /\ Resolve(last.req.filePath) # Resolve(last'.req.filePath))
      => /\ FileOfSet(disk, last) \in DOMAIN disk'
         /\ disk'[FileOfSet(disk, last)] = last.arg]_vars

\* is the folder of the cache of filePath a folder directly in the cache
\* directory, with a name that is not empty
IsSubfolder(i, filePath) ==
  /\ generateCacheFolderName(absolutePathToRelative(filePath, Root)) # << >>
  /\ Dirname(FolderByPath(i, filePath)) = CacheDirectory

\* C27: every file that set has created lies in a folder directly in the
\* cache directory; and a set or a clear that succeeds works on a folder
\* directly in the cache directory, whose name is not empty, and removes no
\* file outside that folder.
SubfolderOnly ==
  /\ [](\A f \in written : Dirname(Dirname(f)) = CacheDirectory)
  /\ [][(last'.op \in {"set", "clear"} /\ last'.res.kind = "return")
          => /\ IsSubfolder(last'.inst, last'.req.filePath)
             /\ \A f \in DOMAIN disk \ DOMAIN disk' :
                  IsUnder(f, FolderByPath(last'.inst, last'.req.filePath))]_vars

\* C28: a get, whatever it returns or throws, leaves the disk as it was (the
\* files of the cache directory and the source files), and the files that
\* set has created and the requests set was called with; of the instances it
\* changes at most the memoized project root of its own.
GetReadOnly ==
  [][last'.op = "get"
      => /\ disk' = disk
         /\ written' = written
         /\ setParams' = setParams
         /\ \A i \in Insts \ {last'.inst} : appRootPath'[i] = appRootPath[i]
         /\ appRootPath'[last'.inst] = <<Root>>]_vars

\* C28 witness: the first get of an instance has returned the artifact that
\* a set of the other instance stored, has memoized the project root, and
\* the artifact is in its file as before
GetReadOnlyWitness ==
  /\ last.op = "get"
  /\ Returned(last, <<"P">>)
  /\ last.prev.op = "set"
  /\ last.prev.ok
  /\ ~last.prev.sameInst
  /\ appRootPath[last.inst] = <<Root>>
  /\ calls[last.inst] = 1
  /\ written # {}
  /\ \A f \in written : f \in DOMAIN disk /\ disk[f] = "P"

====
